---- MODULE Spec2Model ----
(***************************************************************************)
(* fastdi: the dependency-injection container of src/fastdi/dependency.py. *)
(*                                                                         *)
(* The container keeps three dictionaries (singletons, configs,            *)
(* transients) from interface types to Dependency records, and a flag      *)
(* _init.  Registration writes the dictionaries, resolve reads them and    *)
(* recursively builds object graphs, SingletonResolver.resolve writes the  *)
(* built instance back into singletons.                                    *)
(*                                                                         *)
(* Spec     : one caller, every public method is one atomic action.        *)
(* SpecConc : several callers resolving at the same time, one action per   *)
(*            step of container.resolve / Resolver.resolve.                *)
(***************************************************************************)
EXTENDS Integers, Sequences, FiniteSets, TLC

(***************************************************************************)
(* Bounds of the model.                                                    *)
(***************************************************************************)
\* objects ever allocated (configuration instances and built services)
MaxObjs == 3
\* nesting depth of container.resolve at which the interpreter raises
\* RecursionError (sys.getrecursionlimit() in the interpreter)
RecursionLimit == 4
\* calls of container.resolve each concurrent caller makes
MaxCalls == 2

(***************************************************************************)
(* The classes of the composition root: the universe the inputs are drawn  *)
(* from.  Cfg is a configuration class; Svc needs an IRepo and a Cfg; Repo *)
(* implements IRepo and needs a Cfg; IRepo itself can be constructed, from *)
(* a Svc, so that binding IRepo to IRepo closes a cycle Svc -> IRepo ->    *)
(* Svc, while binding IRepo to Repo gives the chain Svc -> IRepo -> Cfg.   *)
(***************************************************************************)
Classes == {"Cfg", "IRepo", "Repo", "Svc"}

\* cls.__bases__[0]
Base(c) == IF c = "Repo" THEN "IRepo" ELSE "object"

\* inspect.signature(constructor).parameters: the annotations, in order
Params(c) ==
  CASE c = "Repo" -> <<"Cfg">>
    [] c = "Svc"  -> <<"IRepo", "Cfg">>
    [] c = "IRepo" -> <<"Svc">>
    [] OTHER      -> <<>>

\* issubclass(c, k) for two classes
RECURSIVE issubclass(_, _)
issubclass(c, k) ==
  IF c = k THEN TRUE
  ELSE IF c = "object" THEN FALSE
  ELSE issubclass(Base(c), k)

\* the interface types the composition root registers under
Keys == {"Cfg", "IRepo", "Svc"}

\* what a caller can pass as `pattern`: a class, or an instance of a class
PatternKinds == {"class", "instance"}
Patterns == [kind : PatternKinds, cls : Classes]
\* add_transient declares pattern: Callable[..., T], a class
ClassPatterns == {p \in Patterns : p.kind = "class"}

\* the FastAPI applications a container can be bound to
Apps == {"app1", "app2"}

\* the request threads that resolve at the same time in SpecConc
Callers == {"t1", "t2"}

(***************************************************************************)
(* Values.                                                                 *)
(***************************************************************************)
SINGLETON == "singleton"
TRANSIENT == "transient"

\* Signature[T](pattern): a factory wrapping a constructor
Signature(c) == [tag |-> "Signature", constructor |-> c]
\* a reference to the object objs[i]
Instance(i) == [tag |-> "Instance", id |-> i]
\* Dependency(interface_type, pattern, scope)
Dependency(k, p, s) ==
  [tag |-> "Dependency", interface_type |-> k, pattern |-> p, scope |-> s]

None == [tag |-> "None"]

\* the exceptions, by the place that raises them
NoError == [kind |-> "none", key |-> "", caller |-> ""]
Error(kind, key, caller) == [kind |-> kind, key |-> key, caller |-> caller]

VARIABLES
  singletons,   \* self.singletons : key -> Dependency, or the built instance
  configs,      \* self.configs    : key -> Dependency
  transients,   \* self.transients : key -> Dependency
  init,         \* self._init
  apps,         \* app -> whether app.state.service_provider is this container
  objs,         \* the heap: objs[i] is the i-th object allocated
  last,         \* the last operation of the caller and its outcome
  stack,        \* SpecConc: caller -> its call stack of resolve frames
  rets,         \* SpecConc: caller -> the outcomes of its finished calls
  missed        \* SpecApp: the singleton keys whose last resolve, made while
                \* the factory had not run, raised UnregisteredDependency

vars == <<singletons, configs, transients, init, apps, objs, last, stack, rets, missed>>
callervars == <<stack, rets>>

\* a dictionary with one more (or one replaced) item
Put(d, k, v) == [x \in DOMAIN d \cup {k} |-> IF x = k THEN v ELSE d[x]]

EmptyDict == [x \in {} |-> None]

(***************************************************************************)
(* DependencyContainer                                                     *)
(***************************************************************************)
is_initialized == init

_registered(interface_type) ==
  \/ interface_type \in DOMAIN transients
  \/ interface_type \in DOMAIN singletons
  \/ interface_type \in DOMAIN configs

\* _typecheck: issubclass(service, interface_type) raises TypeError when
\* service is not a class
_typecheck(interface_type, service) ==
  IF service.kind # "class"
  THEN [raised |-> TRUE, valid |-> FALSE, is_signature |-> FALSE]
  ELSE [raised |-> FALSE, valid |-> issubclass(service.cls, interface_type),
        is_signature |-> TRUE]

Init ==
  /\ singletons = EmptyDict
  /\ configs = EmptyDict
  /\ transients = EmptyDict
  /\ init = FALSE
  /\ apps = [a \in Apps |-> FALSE]
  /\ objs = <<>>
  /\ last = [op |-> "new", key |-> "", pattern |-> None, ok |-> TRUE,
             val |-> None, err |-> NoError]
  /\ stack = [t \in Callers |-> <<>>]
  /\ rets = [t \in Callers |-> <<>>]
  /\ missed = {}

Returned(op, key, pattern, val) ==
  [op |-> op, key |-> key, pattern |-> pattern, ok |-> TRUE, val |-> val,
   err |-> NoError]
Raised(op, key, pattern, err) ==
  [op |-> op, key |-> key, pattern |-> pattern, ok |-> FALSE, val |-> None,
   err |-> err]

\* an initialize that installs the container on every application it is given
initialize_rebind(api) ==
  /\ apps' = [apps EXCEPT ![api] = TRUE]
  /\ init' = TRUE
  /\ last' = Returned("initialize", api, None, None)
  /\ UNCHANGED <<singletons, configs, transients, objs, callervars, missed>>

initialize(api) ==
  /\ IF ~is_initialized
     THEN /\ apps' = [apps EXCEPT ![api] = TRUE]
          /\ init' = TRUE
     ELSE UNCHANGED <<apps, init>>
  /\ last' = Returned("initialize", api, None, None)
  /\ UNCHANGED <<singletons, configs, transients, objs, callervars, missed>>

\* an add_configuration that stores the instance before it tests for a
\* duplicate
add_configuration_store_first(c) ==
  /\ Len(objs) < MaxObjs
  /\ objs' = Append(objs, [cls |-> c, args |-> <<>>, builtfor |-> ""])
  /\ configs' = Put(configs, c, Dependency(c, Instance(Len(objs) + 1), SINGLETON))
  /\ last' = IF c \in DOMAIN configs
             THEN Raised("add_configuration", c, [kind |-> "instance", cls |-> c],
                         Error("DuplicateRegistration", c, ""))
             ELSE Returned("add_configuration", c, [kind |-> "instance", cls |-> c], None)
  /\ UNCHANGED <<singletons, transients, init, apps, callervars, missed>>

\* add_configuration(pattern), pattern being an instance of class c that the
\* caller has just made; it enters the heap when the container keeps it
add_configuration(c) ==
  /\ LET configuration_type == c
         pattern == [kind |-> "instance", cls |-> c]
     IN  IF configuration_type \in DOMAIN configs
         THEN /\ last' = Raised("add_configuration", c, pattern,
                                Error("DuplicateRegistration", c, ""))
              /\ UNCHANGED <<configs, objs>>
         ELSE /\ Len(objs) < MaxObjs
              /\ objs' = Append(objs, [cls |-> c, args |-> <<>>, builtfor |-> ""])
              /\ configs' = Put(configs, configuration_type,
                     Dependency(configuration_type, Instance(Len(objs) + 1), SINGLETON))
              /\ last' = Returned("add_configuration", c, pattern, None)
  /\ UNCHANGED <<singletons, transients, init, apps, callervars, missed>>

\* the body of add_singleton, run on behalf of operation op, which returns ret
add_singleton_for(op, ret, interface_type, pattern) ==
  /\ LET tc == _typecheck(interface_type, pattern)
     IN  IF _registered(interface_type)
         THEN /\ last' = Raised(op, interface_type, pattern,
                                Error("DuplicateRegistration", interface_type, ""))
              /\ UNCHANGED <<singletons, objs>>
         ELSE IF tc.raised
         THEN /\ last' = Raised(op, interface_type, pattern,
                                Error("TypeError", interface_type, "issubclass"))
              /\ UNCHANGED <<singletons, objs>>
         ELSE IF ~tc.valid
         THEN /\ last' = Raised(op, interface_type, pattern,
                                Error("TypeMismatch", interface_type, ""))
              /\ UNCHANGED <<singletons, objs>>
         ELSE IF tc.is_signature
         THEN /\ singletons' = Put(singletons, interface_type,
                     Dependency(interface_type, Signature(pattern.cls), SINGLETON))
              /\ last' = Returned(op, interface_type, pattern, ret)
              /\ UNCHANGED objs
         ELSE \* the instance itself is stored as the pattern
              /\ Len(objs) < MaxObjs
              /\ objs' = Append(objs, [cls |-> pattern.cls, args |-> <<>>, builtfor |-> ""])
              /\ singletons' = Put(singletons, interface_type,
                     Dependency(interface_type, Instance(Len(objs) + 1), SINGLETON))
              /\ last' = Returned(op, interface_type, pattern, ret)
  /\ UNCHANGED <<configs, transients, init, apps, callervars, missed>>

\* the body of add_transient, run on behalf of operation op, which returns ret
add_transient_for(op, ret, interface_type, pattern) ==
  /\ LET tc == _typecheck(interface_type, pattern)
     IN  IF _registered(interface_type)
         THEN /\ last' = Raised(op, interface_type, pattern,
                                Error("DuplicateRegistration", interface_type, ""))
              /\ UNCHANGED transients
         ELSE IF tc.raised
         THEN /\ last' = Raised(op, interface_type, pattern,
                                Error("TypeError", interface_type, "issubclass"))
              /\ UNCHANGED transients
         ELSE IF ~tc.valid
         THEN /\ last' = Raised(op, interface_type, pattern,
                                Error("TypeMismatch", interface_type, ""))
              /\ UNCHANGED transients
         ELSE /\ transients' = Put(transients, interface_type,
                     Dependency(interface_type, Signature(pattern.cls), TRANSIENT))
              /\ last' = Returned(op, interface_type, pattern, ret)
  /\ UNCHANGED <<singletons, configs, init, apps, objs, callervars, missed>>

add_singleton(interface_type, pattern) ==
  add_singleton_for("add_singleton", None, interface_type, pattern)

add_transient(interface_type, pattern) ==
  add_transient_for("add_transient", None, interface_type, pattern)

\* a _mark that registers every class under the class itself
MarkKey_cls(cls) == cls

\* _mark: base if base != object else cls, base being cls.__bases__[0]
MarkKey(cls) == IF Base(cls) # "object" THEN Base(cls) ELSE cls

\* @container.singleton on class cls: registers it and returns it
singleton(cls) ==
  add_singleton_for("singleton", [kind |-> "class", cls |-> cls],
                    MarkKey(cls), [kind |-> "class", cls |-> cls])

\* @container.transient on class cls
transient(cls) ==
  add_transient_for("transient", [kind |-> "class", cls |-> cls],
                    MarkKey(cls), [kind |-> "class", cls |-> cls])

\* container.inject(interface_type)
inject(interface_type) ==
  /\ last' = IF interface_type \in DOMAIN transients
             THEN Returned("inject", interface_type, None, transients[interface_type])
             ELSE IF interface_type \in DOMAIN singletons
             THEN Returned("inject", interface_type, None, singletons[interface_type])
             ELSE IF interface_type \in DOMAIN configs
             THEN Returned("inject", interface_type, None, configs[interface_type])
             ELSE Raised("inject", interface_type, None,
                         Error("ValueError", interface_type, ""))
  /\ UNCHANGED <<singletons, configs, transients, init, apps, objs, callervars, missed>>

(***************************************************************************)
(* Resolution.  The operators below are container.resolve and the two      *)
(* Resolver.resolve methods as functions of the dictionary singletons and  *)
(* the heap (the only state a resolution writes); each returns the outcome *)
(* together with the dictionary and the heap it leaves behind, which an    *)
(* exception does not roll back.                                           *)
(***************************************************************************)
Return(val, s, h) ==
  [ok |-> TRUE, val |-> val, err |-> NoError, args |-> <<>>, singletons |-> s, objs |-> h]
Raise(err, s, h) ==
  [ok |-> FALSE, val |-> None, err |-> err, args |-> <<>>, singletons |-> s, objs |-> h]

\* Resolver.get_resolver(container, scope)
get_resolver(scope) ==
  IF scope = SINGLETON THEN "SingletonResolver" ELSE "TransientResolver"

\* dependency.pattern(**signature): the constructor is called with the
\* resolved arguments and the new object joins the heap
Construct(h, constructor, args, key) ==
  Append(h, [cls |-> constructor, args |-> args, builtfor |-> key])

\* what SingletonResolver.resolve writes into singletons after the call
Store(s, interface_type, instance) == Put(s, interface_type, instance)

\* a resolver that passes no caller= down
CallerName_none(interface_type) == ""

\* the caller= argument the resolvers pass down: interface_type.__name__
CallerName(interface_type) == interface_type

RECURSIVE resolve(_, _, _, _, _)
RECURSIVE ResolveParams(_, _, _, _, _, _, _)
RECURSIVE SingletonResolver_resolve(_, _, _, _)
RECURSIVE TransientResolver_resolve(_, _, _, _)

\* a comprehension that binds the resolved values in the reverse order
ResolveParams_reversed(s, h, params, i, interface_type, depth, acc) ==
  IF i > Len(params)
  THEN [Return(None, s, h) EXCEPT !.args = acc]
  ELSE LET r == resolve(s, h, params[i], CallerName(interface_type), depth + 1)
       IN  IF ~r.ok THEN r
           ELSE ResolveParams(r.singletons, r.objs, params, i + 1,
                              interface_type, depth, <<r.val>> \o acc)

\* the dict comprehension of the resolvers: parameter i of the constructor,
\* then the ones after it, in the order of the signature
ResolveParams(s, h, params, i, interface_type, depth, acc) ==
  IF i > Len(params)
  THEN [Return(None, s, h) EXCEPT !.args = acc]
  ELSE LET r == resolve(s, h, params[i], CallerName(interface_type), depth + 1)
       IN  IF ~r.ok THEN r
           ELSE ResolveParams(r.singletons, r.objs, params, i + 1,
                              interface_type, depth, Append(acc, r.val))

SingletonResolver_resolve(s, h, interface_type, depth) ==
  IF interface_type \notin DOMAIN s /\ interface_type \notin DOMAIN configs
  THEN Raise(Error("KeyError", interface_type, ""), s, h)
  ELSE
  LET dependency == IF interface_type \in DOMAIN s
                    THEN s[interface_type] ELSE configs[interface_type]
  IN  IF dependency.tag # "Dependency"
      THEN Raise(Error("AttributeError", interface_type, "pattern"), s, h)
      ELSE IF dependency.pattern.tag = "Signature"
      THEN LET constructor == dependency.pattern.constructor
               a == ResolveParams(s, h, Params(constructor), 1, interface_type,
                                  depth, <<>>)
           IN  IF ~a.ok THEN a
               ELSE LET heap == Construct(a.objs, constructor, a.args, interface_type)
                        instance == Instance(Len(heap))
                    IN  Return(instance, Store(a.singletons, interface_type, instance),
                               heap)
      ELSE Return(dependency.pattern, s, h)

TransientResolver_resolve(s, h, interface_type, depth) ==
  LET dependency == transients[interface_type]
      constructor == dependency.pattern.constructor
      a == ResolveParams(s, h, Params(constructor), 1, interface_type, depth, <<>>)
  IN  IF ~a.ok THEN a
      ELSE LET heap == Construct(a.objs, constructor, a.args, interface_type)
           IN  Return(Instance(Len(heap)), a.singletons, heap)

\* Dependency.resolver(container).resolve(interface_type)
Dispatch(s, h, dependency, interface_type, depth) ==
  IF dependency.tag # "Dependency"
  THEN Raise(Error("AttributeError", interface_type, "resolver"), s, h)
  ELSE IF get_resolver(dependency.scope) = "SingletonResolver"
  THEN SingletonResolver_resolve(s, h, interface_type, depth)
  ELSE TransientResolver_resolve(s, h, interface_type, depth)

\* the two guards that open DependencyContainer.resolve, in the order swapped
resolve_checks_swapped(s, interface_type, caller) ==
  IF ~(\/ interface_type \in DOMAIN transients
       \/ interface_type \in DOMAIN s
       \/ interface_type \in DOMAIN configs)
  THEN Error("UnregisteredDependency", interface_type, caller)
  ELSE IF ~is_initialized
  THEN Error("NotInitialized", "", "")
  ELSE NoError

\* the two guards that open DependencyContainer.resolve: the container is
\* initialized, then the key is registered (_registered over the current
\* dictionaries); the message names the caller when there is one
resolve_checks(s, interface_type, caller) ==
  IF ~is_initialized
  THEN Error("NotInitialized", "", "")
  ELSE IF ~(\/ interface_type \in DOMAIN transients
            \/ interface_type \in DOMAIN s
            \/ interface_type \in DOMAIN configs)
  THEN Error("UnregisteredDependency", interface_type, caller)
  ELSE NoError

\* DependencyContainer.resolve(interface_type, caller=caller)
resolve(s, h, interface_type, caller, depth) ==
  IF depth > RecursionLimit
  THEN Raise(Error("RecursionError", interface_type, caller), s, h)
  ELSE IF resolve_checks(s, interface_type, caller) # NoError
  THEN Raise(resolve_checks(s, interface_type, caller), s, h)
  ELSE IF interface_type \in DOMAIN transients
  THEN Dispatch(s, h, transients[interface_type], interface_type, depth)
  ELSE IF interface_type \in DOMAIN s
  THEN Dispatch(s, h, s[interface_type], interface_type, depth)
  ELSE Dispatch(s, h, configs[interface_type], interface_type, depth)

\* what a call of container.resolve(interface_type) by the application does
\* to the container
ResolveStep(interface_type) ==
  LET r == resolve(singletons, objs, interface_type, "", 1)
  IN  /\ Len(r.objs) <= MaxObjs
      /\ singletons' = r.singletons
      /\ objs' = r.objs
      /\ last' = [op |-> "resolve", key |-> interface_type, pattern |-> None,
                  ok |-> r.ok, val |-> r.val, err |-> r.err]
      /\ UNCHANGED <<configs, transients, init, apps, callervars>>

\* a call of container.resolve(interface_type) by the application
Resolve(interface_type) ==
  /\ ResolveStep(interface_type)
  /\ UNCHANGED missed

Next ==
  \/ \E api \in Apps : initialize(api)
  \/ \E c \in Keys : add_configuration(c)
  \/ \E k \in Keys, p \in Patterns : add_singleton(k, p)
  \/ \E k \in Keys, p \in ClassPatterns : add_transient(k, p)
  \/ \E k \in Keys : Resolve(k)

Spec == Init /\ [][Next]_vars

(***************************************************************************)
(* Concurrent resolution.  FastAPI runs the handlers of a synchronous      *)
(* route in a thread pool, so several threads can be inside                *)
(* container.resolve at once.  Each caller has a stack of frames, one per  *)
(* nested container.resolve; a frame runs through the statements of        *)
(* DependencyContainer.resolve and of the Resolver it dispatches to, one   *)
(* action per statement that reads or writes the shared dictionary.        *)
(***************************************************************************)
Frame(key, caller) ==
  [key |-> key, caller |-> caller, pc |-> "resolve", resolver |-> "",
   constructor |-> "", args |-> <<>>, instance |-> None]

Outcome(key, ok, val, err) == [key |-> key, ok |-> ok, val |-> val, err |-> err]

Top(t) == stack[t][Len(stack[t])]
SetTop(t, f) == [stack EXCEPT ![t] = [@ EXCEPT ![Len(@)] = f]]

\* the top frame returns val: the frame below takes it as its next argument,
\* or the call of the application is over
ReturnFrom(t, val) ==
  IF Len(stack[t]) = 1
  THEN /\ stack' = [stack EXCEPT ![t] = <<>>]
       /\ rets' = [rets EXCEPT ![t] = Append(@, Outcome(Top(t).key, TRUE, val, NoError))]
  ELSE /\ stack' = [stack EXCEPT ![t] =
                     [i \in 1..(Len(@) - 1) |->
                        IF i = Len(@) - 1
                        THEN [@[i] EXCEPT !.args = Append(@, val)]
                        ELSE @[i]]]
       /\ UNCHANGED rets

\* the top frame raises err: no frame catches it, the call of the
\* application ends with it
RaiseFrom(t, err) ==
  /\ stack' = [stack EXCEPT ![t] = <<>>]
  /\ rets' = [rets EXCEPT ![t] = Append(@, Outcome(stack[t][1].key, FALSE, None, err))]

\* the application calls container.resolve(interface_type)
conc_call(t, interface_type) ==
  /\ stack[t] = <<>>
  /\ Len(rets[t]) < MaxCalls
  /\ stack' = [stack EXCEPT ![t] = <<Frame(interface_type, "")>>]
  /\ UNCHANGED <<singletons, configs, transients, init, apps, objs, last, rets, missed>>

\* DependencyContainer.resolve up to the call of Resolver.resolve
conc_resolve(t) ==
  /\ stack[t] # <<>>
  /\ Top(t).pc = "resolve"
  /\ LET f == Top(t)
         e == resolve_checks(singletons, f.key, f.caller)
         dependency == IF f.key \in DOMAIN transients THEN transients[f.key]
                       ELSE IF f.key \in DOMAIN singletons THEN singletons[f.key]
                       ELSE configs[f.key]
     IN  IF Len(stack[t]) > RecursionLimit
         THEN RaiseFrom(t, Error("RecursionError", f.key, f.caller))
         ELSE IF e # NoError
         THEN RaiseFrom(t, e)
         ELSE IF dependency.tag # "Dependency"
         THEN RaiseFrom(t, Error("AttributeError", f.key, "resolver"))
         ELSE /\ stack' = SetTop(t, [f EXCEPT !.pc = get_resolver(dependency.scope),
                                               !.resolver = get_resolver(dependency.scope)])
              /\ UNCHANGED rets
  /\ UNCHANGED <<singletons, configs, transients, init, apps, objs, last, missed>>

\* SingletonResolver.resolve: read the entry and test its pattern
conc_singleton_read(t) ==
  /\ stack[t] # <<>>
  /\ Top(t).pc = "SingletonResolver"
  /\ LET f == Top(t)
         dependency == IF f.key \in DOMAIN singletons
                       THEN singletons[f.key] ELSE configs[f.key]
     IN  IF dependency.tag # "Dependency"
         THEN RaiseFrom(t, Error("AttributeError", f.key, "pattern"))
         ELSE IF dependency.pattern.tag = "Signature"
         THEN /\ stack' = SetTop(t, [f EXCEPT !.pc = "params",
                                      !.constructor = dependency.pattern.constructor])
              /\ UNCHANGED rets
         ELSE ReturnFrom(t, dependency.pattern)
  /\ UNCHANGED <<singletons, configs, transients, init, apps, objs, last, missed>>

\* TransientResolver.resolve: read the entry and its constructor
conc_transient_read(t) ==
  /\ stack[t] # <<>>
  /\ Top(t).pc = "TransientResolver"
  /\ stack' = SetTop(t, [Top(t) EXCEPT !.pc = "params",
         !.constructor = transients[Top(t).key].pattern.constructor])
  /\ UNCHANGED <<singletons, configs, transients, init, apps, objs, last, rets, missed>>

\* the dict comprehension: container.resolve for the next parameter
conc_param(t) ==
  /\ stack[t] # <<>>
  /\ Top(t).pc = "params"
  /\ Len(Top(t).args) < Len(Params(Top(t).constructor))
  /\ stack' = [stack EXCEPT ![t] =
        Append(@, Frame(Params(Top(t).constructor)[Len(Top(t).args) + 1],
                        CallerName(Top(t).key)))]
  /\ UNCHANGED <<singletons, configs, transients, init, apps, objs, last, rets, missed>>

\* dependency.pattern(**signature): every parameter is resolved, the
\* constructor is called; TransientResolver returns the new instance
conc_construct(t) ==
  /\ stack[t] # <<>>
  /\ Top(t).pc = "params"
  /\ Len(Top(t).args) = Len(Params(Top(t).constructor))
  /\ Len(objs) < MaxObjs
  /\ objs' = Construct(objs, Top(t).constructor, Top(t).args, Top(t).key)
  /\ IF Top(t).resolver = "SingletonResolver"
     THEN /\ stack' = SetTop(t, [Top(t) EXCEPT !.pc = "store",
                                  !.instance = Instance(Len(objs) + 1)])
          /\ UNCHANGED rets
     ELSE ReturnFrom(t, Instance(Len(objs) + 1))
  /\ UNCHANGED <<singletons, configs, transients, init, apps, last, missed>>

\* SingletonResolver.resolve: store the instance and return it
conc_store(t) ==
  /\ stack[t] # <<>>
  /\ Top(t).pc = "store"
  /\ singletons' = Store(singletons, Top(t).key, Top(t).instance)
  /\ ReturnFrom(t, Top(t).instance)
  /\ UNCHANGED <<configs, transients, init, apps, objs, last, missed>>

\* the container as a composition root leaves it: a Cfg configuration, IRepo
\* bound to Repo and Svc bound to Svc, each as a singleton or a transient,
\* and the container initialized
Composed ==
  /\ init = TRUE
  /\ apps = [a \in Apps |-> a = "app1"]
  /\ objs = <<[cls |-> "Cfg", args |-> <<>>, builtfor |-> ""]>>
  /\ configs = [k \in {"Cfg"} |-> Dependency("Cfg", Instance(1), SINGLETON)]
  /\ \E sk \in SUBSET {"IRepo", "Svc"} :
       /\ singletons = [k \in sk |->
            Dependency(k, Signature(IF k = "IRepo" THEN "Repo" ELSE k), SINGLETON)]
       /\ transients = [k \in {"IRepo", "Svc"} \ sk |->
            Dependency(k, Signature(IF k = "IRepo" THEN "Repo" ELSE k), TRANSIENT)]

ConcInit ==
  /\ Composed
  /\ last = Returned("initialize", "app1", None, None)
  /\ stack = [t \in Callers |-> <<>>]
  /\ rets = [t \in Callers |-> <<>>]
  /\ missed = {}

NextConc ==
  \/ \E t \in Callers, k \in Keys : conc_call(t, k)
  \/ \E t \in Callers : conc_resolve(t)
  \/ \E t \in Callers : conc_singleton_read(t)
  \/ \E t \in Callers : conc_transient_read(t)
  \/ \E t \in Callers : conc_param(t)
  \/ \E t \in Callers : conc_construct(t)
  \/ \E t \in Callers : conc_store(t)

SpecConc == ConcInit /\ [][NextConc]_vars

(***************************************************************************)
(* Properties of the single-caller specification.                          *)
(***************************************************************************)
RegistrationOps == {"add_configuration", "add_singleton", "add_transient"}

\* the binding of key k has a factory that container.resolve would call
IsSingletonKey(k) == k \in DOMAIN singletons /\ k \notin DOMAIN transients
IsTransientKey(k) == k \in DOMAIN transients
IsConfigKey(k) ==
  k \in DOMAIN configs /\ k \notin DOMAIN singletons /\ k \notin DOMAIN transients

\* C1: two resolves in a row of a registered singleton key: the second
\* succeeds, returns the instance the first returned, and constructs nothing.
C1_SingletonSameInstance ==
  [][(/\ last.op = "resolve" /\ last.ok
      /\ last'.op = "resolve" /\ last'.key = last.key
      /\ IsSingletonKey(last.key))
     => (/\ last'.ok
         /\ last'.val = last.val
         /\ objs' = objs)]_vars

\* C3: a registration of a key that is bound already (in any of the three
\* dictionaries) raises DuplicateRegistration, whichever operation it is.
C3_DuplicateAlwaysRaises ==
  [][(last'.op \in RegistrationOps /\ _registered(last'.key))
     => (~last'.ok /\ last'.err.kind = "DuplicateRegistration")]_vars

\* C4: every key is in at most one of configs, singletons and transients.
C4_AtMostOneMap ==
  \A k \in Classes :
    Cardinality({m \in {"c", "s", "t"} :
                   \/ m = "c" /\ k \in DOMAIN configs
                   \/ m = "s" /\ k \in DOMAIN singletons
                   \/ m = "t" /\ k \in DOMAIN transients}) <= 1

\* the supplied class, or the class of the supplied instance, is the key or
\* a subclass of it
SatisfiesContract(k, p) == issubclass(p.cls, k)
\* TypeMismatch is a TypeError, whoever raises it
IsTypeMismatch(e) == e.kind \in {"TypeMismatch", "TypeError"}

\* C5: add_singleton / add_transient on an unbound key raise TypeMismatch
\* when the pattern does not satisfy the key, and otherwise store the
\* binding: a class as a factory, an instance (add_singleton) as an instance.
C5_TypecheckThenStore ==
  [][(last'.op \in {"add_singleton", "add_transient"} /\ ~_registered(last'.key))
     => LET k == last'.key
            p == last'.pattern
            d == IF last'.op = "add_singleton" THEN singletons' ELSE transients'
        IN  IF SatisfiesContract(k, p)
            THEN /\ last'.ok
                 /\ k \in DOMAIN d
                 /\ d[k].tag = "Dependency"
                 /\ IF p.kind = "class"
                    THEN d[k].pattern = Signature(p.cls)
                    ELSE d[k].pattern.tag = "Instance"
            ELSE ~last'.ok /\ IsTypeMismatch(last'.err)]_vars

\* C6: before initialize, resolve raises NotInitialized for every key,
\* registered or not, and leaves the three dictionaries as they were.
C6_NotInitialized ==
  [][(last'.op = "resolve" /\ ~init)
     => (/\ ~last'.ok
         /\ last'.err.kind = "NotInitialized"
         /\ singletons' = singletons
         /\ configs' = configs
         /\ transients' = transients
         /\ objs' = objs)]_vars

C6_Witness ==
  /\ last.op = "resolve" /\ ~init /\ _registered(last.key)
  /\ last.err.kind = "NotInitialized"

\* the constructor a resolve of key k would call, "" when there is none
\* left to call
FactoryOf(k) ==
  IF k \in DOMAIN transients THEN transients[k].pattern.constructor
  ELSE IF k \in DOMAIN singletons /\ singletons[k].tag = "Dependency"
          /\ singletons[k].pattern.tag = "Signature"
  THEN singletons[k].pattern.constructor
  ELSE ""

\* C7: on an initialized container (a) resolve of an unregistered key raises
\* UnregisteredDependency for that key; (b) when a declared dependency of
\* the resolved binding is unregistered and the ones declared before it are
\* configurations, the error names that dependency and the binding; (c) an
\* UnregisteredDependency with a caller names an unregistered key that is a
\* declared dependency of the caller's factory, however deep it was raised.
C7_Unregistered ==
  (last.op = "resolve" /\ init) =>
    /\ ~_registered(last.key) =>
         (~last.ok /\ last.err = Error("UnregisteredDependency", last.key, ""))
    /\ FactoryOf(last.key) # "" =>
         \A i \in 1..Len(Params(FactoryOf(last.key))) :
           LET ps == Params(FactoryOf(last.key))
           IN  (/\ ~_registered(ps[i])
                /\ \A j \in 1..(i - 1) : IsConfigKey(ps[j]))
               => (~last.ok
                   /\ last.err = Error("UnregisteredDependency", ps[i], last.key))
    /\ (last.err.kind = "UnregisteredDependency" /\ last.err.caller # "") =>
         /\ ~_registered(last.err.key)
         /\ FactoryOf(last.err.caller) # ""
         /\ \E i \in 1..Len(Params(FactoryOf(last.err.caller))) :
              Params(FactoryOf(last.err.caller))[i] = last.err.key

\* the miss is two levels down: the error names the immediate dependent,
\* not the key the application asked for
C7_Witness ==
  /\ last.op = "resolve" /\ init
  /\ last.err.kind = "UnregisteredDependency"
  /\ last.err.caller # "" /\ last.err.caller # last.key

\* C8: two resolves in a row of a registered transient key: the second
\* succeeds, returns another instance, and the arguments injected for the
\* dependencies that are singletons or configurations are the same objects.
C8_TransientDistinct ==
  [][(/\ last.op = "resolve" /\ last.ok
      /\ last'.op = "resolve" /\ last'.key = last.key
      /\ IsTransientKey(last.key))
     => (/\ last'.ok
         /\ last'.val # last.val
         /\ \A i \in 1..Len(Params(FactoryOf(last.key))) :
              ~IsTransientKey(Params(FactoryOf(last.key))[i])
              => objs'[last'.val.id].args[i] = objs[last.val.id].args[i])]_vars

\* entry e, which follows entry d of the same key, is the same Dependency
\* record but for its pattern, which a memoizing singleton may have set
EntryKept(d, e, allowMemo) ==
  /\ e.tag = "Dependency"
  /\ d.tag = "Dependency" =>
       /\ e.interface_type = d.interface_type
       /\ e.scope = d.scope
       /\ \/ e.pattern = d.pattern
          \/ allowMemo /\ d.pattern.tag = "Signature" /\ e.pattern.tag = "Instance"

\* C10: a registry entry, once made, is never removed and stays the same
\* Dependency record of the same key and scope; its pattern is unchanged,
\* except that a singleton's pattern may go from a Signature to an Instance.
C10_EntriesImmutable ==
  [][/\ \A k \in DOMAIN singletons :
          k \in DOMAIN singletons' /\ EntryKept(singletons[k], singletons'[k], TRUE)
     /\ \A k \in DOMAIN configs :
          k \in DOMAIN configs' /\ EntryKept(configs[k], configs'[k], FALSE)
     /\ \A k \in DOMAIN transients :
          k \in DOMAIN transients' /\ EntryKept(transients[k], transients'[k], FALSE)
    ]_vars

(***************************************************************************)
(* Properties of the concurrent specification.                             *)
(***************************************************************************)
\* the objects the factory of key k has built
BuiltFor(k) == {i \in 1..Len(objs) : objs[i].builtfor = k}

\* C2: callers resolving a singleton key at the same time: its factory
\* builds one instance at most, and every call that returns a value returns
\* that instance.
C2_ConcurrentFirstResolve ==
  \A k \in DOMAIN singletons :
    /\ Cardinality(BuiltFor(k)) <= 1
    /\ \A t \in Callers : \A i \in 1..Len(rets[t]) :
         (rets[t][i].key = k /\ rets[t][i].ok)
         => rets[t][i].val.id \in BuiltFor(k)

\* the pattern of a singletons entry: the pattern of the Dependency record,
\* or the instance that SingletonResolver.resolve stored in its place
PatternOf(e) == IF e.tag = "Dependency" THEN e.pattern ELSE e

\* C9: the pattern of a singleton binding registered with a factory changes
\* only from the factory to an instance, so at most once, and an instance
\* is never replaced; it is an instance after a resolve of the key returned.
C9_MemoizedOnce ==
  [][/\ \A k \in DOMAIN singletons :
          \/ PatternOf(singletons'[k]) = PatternOf(singletons[k])
          \/ /\ PatternOf(singletons[k]).tag = "Signature"
             /\ PatternOf(singletons'[k]).tag = "Instance"
     /\ \A t \in Callers : \A i \in 1..Len(rets'[t]) :
          (rets'[t][i].ok /\ rets'[t][i].key \in DOMAIN singletons)
          => PatternOf(singletons'[rets'[t][i].key]) = rets'[t][i].val
    ]_vars

(***************************************************************************)
(* Further properties of the single-caller specification.                  *)
(***************************************************************************)
\* C11: on an initialized container resolve of a key of configs returns the
\* instance given to add_configuration, builds nothing and memoizes nothing.
C11_ConfigurationAsRegistered ==
  [][(last'.op = "resolve" /\ init /\ last'.key \in DOMAIN configs)
     => (/\ last'.ok
         /\ last'.val = configs[last'.key].pattern
         /\ objs' = objs
         /\ singletons' = singletons)]_vars

\* the objects of heap h that the factory of key k built
BuiltIn(h, k) == {i \in 1..Len(h) : h[i].builtfor = k}

\* C13: a resolve of a key whose binding has a factory, when it returns,
\* has called the factory once, last, with one argument per declared
\* parameter, in the declared order, each the value its key resolves to (the
\* configured instance, the memoized singleton, or a new transient); when it
\* raises, the factory was not called; a first parameter that is not
\* registered is reported with the resolved key as the caller.
C13_DeclaredOrder ==
  [][(last'.op = "resolve" /\ FactoryOf(last'.key) # "")
     => LET k == last'.key
            c == FactoryOf(k)
            ps == Params(c)
            n == Len(objs')
        IN  /\ IF last'.ok
               THEN /\ n > Len(objs)
                    /\ last'.val = Instance(n)
                    /\ BuiltIn(objs', k) = BuiltIn(objs, k) \cup {n}
                    /\ objs'[n].cls = c
                    /\ Len(objs'[n].args) = Len(ps)
                    /\ \A i \in 1..Len(ps) :
                         LET v == objs'[n].args[i]
                         IN  IF ps[i] \in DOMAIN transients
                             THEN v.id > Len(objs) /\ objs'[v.id].builtfor = ps[i]
                             ELSE IF ps[i] \in DOMAIN singletons
                             THEN singletons'[ps[i]] = v
                             ELSE configs[ps[i]].pattern = v
               ELSE BuiltIn(objs', k) = BuiltIn(objs, k)
            /\ (init /\ Len(ps) > 0 /\ ~_registered(ps[1]))
               => last'.err = Error("UnregisteredDependency", ps[1], k)]_vars

\* a Svc has been built from its two arguments
C13_Witness ==
  /\ last.op = "resolve" /\ last.ok
  /\ objs[last.val.id].cls = "Svc"
  /\ Len(objs[last.val.id].args) = 2
  /\ objs[objs[last.val.id].args[1].id].cls = "Repo"

\* the first declared dependency of the binding of k, "" when there is none
FirstDep(k) ==
  IF FactoryOf(k) # "" /\ Len(Params(FactoryOf(k))) > 0
  THEN Params(FactoryOf(k))[1] ELSE ""

\* resolving k comes back to k before anything else is resolved
OnFirstCycle(k) ==
  \/ FirstDep(k) = k
  \/ FirstDep(FirstDep(k)) = k
  \/ FirstDep(FirstDep(FirstDep(k))) = k

\* C14: a resolve that meets a key already in progress fails with
\* CyclicDependency.
C14_CycleDetected ==
  (last.op = "resolve" /\ init /\ OnFirstCycle(last.key))
  => (~last.ok /\ last.err.kind = "CyclicDependency")

\* the keys the factory of k declares
Edges(k) ==
  IF FactoryOf(k) = "" THEN {}
  ELSE {Params(FactoryOf(k))[i] : i \in 1..Len(Params(FactoryOf(k)))}

\* the keys reached from the keys of S in at most n steps
RECURSIVE Reach(_, _)
Reach(S, n) ==
  IF n = 0 THEN S ELSE Reach(S \cup UNION {Edges(k) : k \in S}, n - 1)

\* a dependency cycle can be reached from k
CyclicFrom(k) ==
  \E j \in Reach({k}, Cardinality(Classes)) :
    j \in Reach(Edges(j), Cardinality(Classes))

\* C15: on an initialized container resolve of a key from which no cycle is
\* reached ends with a value or with UnregisteredDependency.
C15_AcyclicTerminates ==
  [][(last'.op = "resolve" /\ init /\ ~CyclicFrom(last'.key))
     => (last'.ok \/ last'.err.kind = "UnregisteredDependency")]_vars

\* C18: once the container is initialized it stays initialized, bound to the
\* same application; a further initialize, for any application, changes
\* nothing of the container and installs it nowhere.
C18_InitializeOnce ==
  [][init => (/\ init'
              /\ apps' = apps
              /\ last'.op = "initialize" =>
                   (/\ singletons' = singletons
                    /\ configs' = configs
                    /\ transients' = transients
                    /\ objs' = objs))]_vars

C18_Witness ==
  /\ last.op = "initialize" /\ last.key = "app2"
  /\ init /\ apps["app1"] /\ ~apps["app2"]

\* C19: a registration that raises leaves the three dictionaries, the heap
\* and the binding to the application as they were.
C19_FailedRegistrationNoEffect ==
  [][(last'.op \in RegistrationOps /\ ~last'.ok)
     => (/\ singletons' = singletons
         /\ configs' = configs
         /\ transients' = transients
         /\ objs' = objs
         /\ init' = init
         /\ apps' = apps)]_vars

\* a second add_configuration of a class has just been refused
C19_Witness ==
  /\ last.op = "add_configuration" /\ ~last.ok
  /\ last.err.kind = "DuplicateRegistration"
  /\ last.key \in DOMAIN configs

(***************************************************************************)
(* The application as the examples compose it: classes are registered by   *)
(* the decorators, the configuration by add_configuration, and the routes  *)
(* reach their services through the handles, invoked once per request.     *)
(***************************************************************************)
\* a Dependency of interface_type with this scope has been created: the
\* registries never drop a key
HandleCreated(interface_type, scope) ==
  IF scope = TRANSIENT
  THEN interface_type \in DOMAIN transients
  ELSE interface_type \in DOMAIN singletons \/ interface_type \in DOMAIN configs

\* Dependency.__call__(request) of the handle of interface_type with this
\* scope, request.app being api
Dependency_call(interface_type, scope, api) ==
  /\ HandleCreated(interface_type, scope)
  /\ LET request == [scope |-> scope, api |-> api]
         r == IF ~apps[api]
              THEN Raise(Error("AttributeError", interface_type, "service_provider"),
                         singletons, objs)
              ELSE IF get_resolver(scope) = "SingletonResolver"
              THEN SingletonResolver_resolve(singletons, objs, interface_type, 1)
              ELSE TransientResolver_resolve(singletons, objs, interface_type, 1)
     IN  /\ Len(r.objs) <= MaxObjs
         /\ singletons' = r.singletons
         /\ objs' = r.objs
         /\ last' = [op |-> "call", key |-> interface_type, pattern |-> request,
                     ok |-> r.ok, val |-> r.val, err |-> r.err]
  /\ UNCHANGED <<configs, transients, init, apps, callervars, missed>>

\* interface_type is bound to a singleton whose factory has not run
InFactoryState(interface_type) ==
  /\ IsSingletonKey(interface_type)
  /\ singletons[interface_type].tag = "Dependency"
  /\ singletons[interface_type].pattern.tag = "Signature"

\* container.resolve(interface_type) by the application, with the record of
\* the singleton keys it could not build for want of a dependency
Resolve_recorded(interface_type) ==
  /\ ResolveStep(interface_type)
  /\ missed' = IF /\ InFactoryState(interface_type)
                  /\ ~last'.ok
                  /\ last'.err.kind = "UnregisteredDependency"
               THEN missed \cup {interface_type}
               ELSE missed \ {interface_type}

NextApp ==
  \/ \E api \in Apps : initialize(api)
  \/ add_configuration("Cfg")
  \/ \E cls \in Classes : singleton(cls)
  \/ \E cls \in Classes : transient(cls)
  \/ \E k \in Keys : inject(k)
  \/ \E k \in Keys, scope \in {SINGLETON, TRANSIENT}, api \in Apps :
       Dependency_call(k, scope, api)
  \/ \E k \in Keys : Resolve_recorded(k)

SpecApp == Init /\ [][NextApp]_vars

\* C12: a handle of key k invoked for a request of an application the
\* container is bound to ends as resolve(k) would have: the same value, or
\* an error of the same kind; for a singleton key already built it returns
\* the memoized instance, for a transient key a new one.
C12_HandleDelegates ==
  [][(last'.op = "call" /\ apps[last'.pattern.api])
     => LET k == last'.key
            r == resolve(singletons, objs, k, "", 1)
        IN  /\ last'.ok = r.ok
            /\ last'.val = r.val
            /\ last'.err.kind = r.err.kind
            /\ (IsSingletonKey(k) /\ singletons[k].tag = "Instance")
               => (last'.ok /\ last'.val = singletons[k] /\ objs' = objs)
            /\ (IsTransientKey(k) /\ last'.ok)
               => (last'.val.id > Len(objs) /\ objs'[last'.val.id].builtfor = k)]_vars

\* C16: inject of a registered key returns the Dependency of that key, the
\* one its registration created.
C16_InjectReturnsHandle ==
  [][(last'.op = "inject" /\ _registered(last'.key))
     => (/\ last'.ok
         /\ last'.val.tag = "Dependency"
         /\ last'.val.interface_type = last'.key)]_vars

\* C17: the singleton (transient) decorator on class cls does what
\* add_singleton (add_transient) does for the key k and the class cls, k the
\* first base of cls, or cls when that base is object: the same error when k
\* is registered, else the same entry under k; and it returns cls.
C17_MarkRegisters ==
  [][(last'.op \in {"singleton", "transient"})
     => LET cls == last'.pattern.cls
            k == IF Base(cls) = "object" THEN cls ELSE Base(cls)
            scope == IF last'.op = "singleton" THEN SINGLETON ELSE TRANSIENT
            entry == Dependency(k, Signature(cls), scope)
        IN  /\ last'.key = k
            /\ UNCHANGED <<configs, init, apps, objs>>
            /\ IF _registered(k)
               THEN /\ ~last'.ok
                    /\ last'.err = Error("DuplicateRegistration", k, "")
                    /\ UNCHANGED <<singletons, transients>>
               ELSE /\ last'.ok
                    /\ last'.val = [kind |-> "class", cls |-> cls]
                    /\ IF scope = SINGLETON
                       THEN /\ singletons' = Put(singletons, k, entry)
                            /\ UNCHANGED transients
                       ELSE /\ transients' = Put(transients, k, entry)
                            /\ UNCHANGED singletons]_vars

\* Repo has been registered by the decorator, under IRepo
C17_Witness ==
  /\ last.op = "singleton" /\ last.ok
  /\ last.pattern.cls = "Repo"
  /\ "IRepo" \in DOMAIN singletons
  /\ singletons["IRepo"].pattern = Signature("Repo")

\* C20: a singleton key whose resolve raised UnregisteredDependency before
\* its factory ran is still in the factory state and nothing was built for
\* it; its next resolve, when no cycle is reached from it, either builds the
\* instance, once, and memoizes it, or raises UnregisteredDependency again
\* and leaves the binding as it was.
C20_RetryAfterMissing ==
  [][(last'.op = "resolve" /\ last'.key \in missed /\ ~CyclicFrom(last'.key))
     => LET k == last'.key
        IN  /\ InFactoryState(k)
            /\ BuiltIn(objs, k) = {}
            /\ \/ /\ last'.ok
                  /\ BuiltIn(objs', k) = {last'.val.id}
                  /\ singletons'[k] = last'.val
               \/ /\ ~last'.ok
                  /\ last'.err.kind = "UnregisteredDependency"
                  /\ singletons'[k] = singletons[k]
                  /\ BuiltIn(objs', k) = {}]_vars

====
